---- MODULE Spec2Model ----
(***************************************************************************)
(* Model of the AI_confluence__KB draft bot.  The repository holds several *)
(* revisions of one Node.js program (index.js); each revision is modelled  *)
(* as a "variant" selected in the initial state:                           *)
(*   "mem"  src/index.js 1-208 (same code: src/unnamed/part_004):          *)
(*          in-memory Set + review queue, POST /review/post drains all.    *)
(*   "per"  src/index.js 210-451: state.json holds the processed list and  *)
(*          the review queue, POST /review/post publishes one subject.     *)
(*   "tix"  src/unnamed/part_001 432-537: processTickets publishes first   *)
(*          and records state[id] afterwards.                              *)
(* JavaScript runs each callback to its next await without interruption,   *)
(* so one action is the code between two awaits of one invocation.         *)
(***************************************************************************)
EXTENDS Integers, Sequences, FiniteSets, TLC

VARIABLES
    variant,          \* which revision of index.js is running
    up,               \* TRUE while the Node process is alive
    restarts,         \* how many times the process was started again
    processedEmails,  \* mem: the Set processedEmails
    reviewQueue,      \* mem: the array the variable reviewQueue refers to
    nobj,             \* object literals pushed so far (object identity)
    state,            \* per/tix: the object `state`
    stateFile,        \* per/tix: contents of ./state.json
    poll,             \* pending invocations of the timer callback
    drain,            \* pending POST /review/post handlers
    pubLog,           \* mem: the distinct calls made to the Confluence content API
    prevSeen,         \* per: ids recorded as processed in an earlier process lifetime
    mailbox,          \* messages matching the query that have arrived so far
    unread,           \* the arrived messages that still carry the UNREAD label
    mailLog,          \* the distinct calls made to gmail.users.messages.send
    tick,             \* per: pending invocations of processReviewQueue
    extraction        \* per: one Subject header value and the ticket extracted from it

vars == <<variant, up, restarts, processedEmails, reviewQueue, nobj,
          state, stateFile, poll, drain, pubLog, prevSeen, mailbox, unread,
          mailLog, tick, extraction>>

(***************************************************************************)
(* Bounds of the model.                                                    *)
(***************************************************************************)
NIds == 2          \* messages that arrive in the mailbox
NPolls == 2        \* timer ticks explored (they may overlap)
NDrains == 2       \* POST /review/post requests explored (they may overlap)
MaxRestarts == 1   \* process restarts explored
MaxLen == 6        \* longest Subject header value explored
NQueued == 3       \* most messages queued before the requests explored alone
NTicks == 2        \* processReviewQueue ticks explored (they may overlap)

Ids == 1..NIds
Polls == 1..NPolls
Drains == 1..NDrains
Ticks == 1..NTicks

(***************************************************************************)
(* The mailbox: what gmail.users.messages.get returns for each id.         *)
(* Odd ids carry no Subject header; subjects are sequences of characters.  *)
(***************************************************************************)
\* Absent values are tagged tuples, as texts are sequences of characters.
NoHeader == <<"#absent">>

SubjectHeader(id) ==
    IF id % 2 = 1 THEN NoHeader
    ELSE <<"A", "B", "-", "1", "2", " ", "x">>

FromHeader(id) == IF id % 2 = 1 THEN NoHeader ELSE <<"a", "@", "x">>

\* payload.parts?.[0]?.body?.data: base64 text, absent for odd ids.
BodyData(id) == IF id % 2 = 1 THEN NoHeader ELSE <<"base64", "t", id>>

\* Buffer.from(data || "", "base64").toString("utf8")
bodyOf(id) == IF BodyData(id) = NoHeader THEN <<>> ELSE Tail(BodyData(id))

\* headers.find(h => h.name === "Subject")?.value || "No Subject"
subjectHeaderOf(id) ==
    IF SubjectHeader(id) = NoHeader
    THEN <<"N", "o", " ", "S", "u", "b", "j", "e", "c", "t">>
    ELSE SubjectHeader(id)

\* headers.find(h => h.name === "From")?.value || "Unknown Sender"
fromHeaderOf(id) ==
    IF FromHeader(id) = NoHeader THEN <<"Unknown Sender">> ELSE FromHeader(id)

\* `Summary placeholder for: ${subjectHeader}`
summaryPlaceholder(subject) == <<"Summary placeholder for: ">> \o subject

\* title: `KB Draft - ${item.subject}`, value: `<p>${item.body}</p>`
confluencePage(subject, body) ==
    [title |-> <<"KB Draft - ">> \o subject,
     value |-> <<"<p>">> \o body \o <<"</p>">>]

(***************************************************************************)
(* Results of gmail.users.messages.list for q 'subject:"Internal"': the    *)
(* matching messages of the mailbox, newest first, at most maxResults.     *)
(* Messages arrive with increasing ids; `mailbox` counts those arrived.    *)
(***************************************************************************)
maxResults == 10

RECURSIVE newestFirst(_, _)
newestFirst(n, limit) ==
    IF n = 0 \/ limit = 0 THEN <<>>
    ELSE <<n>> \o newestFirst(n - 1, limit - 1)

messagesList == newestFirst(mailbox, maxResults)

Range(s) == {s[k] : k \in 1..Len(s)}

(***************************************************************************)
(* One invocation of the timer callback.                                   *)
(*   pc    "idle" (not begun) | "list" | "get" | "done" (returned)         *)
(*   msgs  res.data.messages of this cycle                                 *)
(*   i     position of the for-of loop in msgs                             *)
(*   start mem: the dedup store when the cycle began                       *)
(***************************************************************************)
IdlePoll == [pc |-> "idle", msgs |-> <<>>, i |-> 0, start |-> {}]
DonePoll == [IdlePoll EXCEPT !.pc = "done"]

(***************************************************************************)
(* One invocation of processReviewQueue (src/index.js 386-397).            *)
(*   pc    "idle" (not begun) | "lookup" (axios.get of getJiraTicketInfo   *)
(*         pending) | "send" (messages.send pending) | "done" (returned)   *)
(*         | "rejected" (its promise was rejected)                         *)
(*   i     position of the for-of loop in state.reviewQueue                *)
(*   issue res.data of the latest settled lookup                           *)
(*   to    jiraInfo.assignee while the mail is being sent                  *)
(***************************************************************************)
\* No header value is under extraction.
NoExtraction == [pc |-> "idle", value |-> <<>>, ticket |-> <<"#null">>]

NoIssue == [status |-> "#none", assignee |-> <<"#undefined">>]
IdleTick == [pc |-> "idle", i |-> 0, issue |-> NoIssue, to |-> <<"#undefined">>]

(***************************************************************************)
(* One POST /review/post handler.                                          *)
(*   pc     "idle" (not arrived) | "post" | "done" (responded)             *)
(*   live   the array its for-of iterates is still the one reviewQueue     *)
(*          names; after another handler ran `reviewQueue = []` it is not, *)
(*          and `own` holds that array (nothing pushes to it any more)     *)
(*   i      index of the array iterator                                    *)
(*   pub    oids of the entries it called axios.post for, in call order    *)
(***************************************************************************)
IdleDrain ==
    [pc |-> "idle", live |-> FALSE, own |-> <<>>, i |-> 0, pub |-> <<>>]

\* Invocations are numbered in the order they begin: the next one to begin.
freeSlot(slots, S) ==
    IF \E x \in S : slots[x].pc = "idle"
    THEN CHOOSE x \in S : /\ slots[x].pc = "idle"
                          /\ \A y \in S : slots[y].pc = "idle" => x <= y
    ELSE 0

\* A dedup test that never finds the id.
hasProcessedNever(seen, id) == FALSE

\* processedEmails.has(msg.id)
hasProcessed(seen, id) == id \in seen

\* The for-of loop's `if (processedEmails.has(msg.id)) continue;`: the first
\* position from `from` on whose id is not in `seen` (Len+1: loop finished).
RECURSIVE nextUnprocessed(_, _, _)
nextUnprocessed(msgs, from, seen) ==
    IF from > Len(msgs) THEN Len(msgs) + 1
    ELSE IF hasProcessed(seen, msgs[from]) THEN nextUnprocessed(msgs, from + 1, seen)
    ELSE from

\* An assignment of a one-element array in place of push.
pushOnly(arr, e) == <<e>>

\* Array.prototype.unshift in place of push.
pushFront(arr, e) == <<e>> \o arr

\* Array.prototype.push
push(arr, e) == Append(arr, e)

\* The loop of a cycle resumes at position `from`: it skips processed ids and
\* either awaits messages.get for the next new id or leaves the loop, which
\* ends the invocation.
resumeLoop(c, from, seen) ==
    LET j == nextUnprocessed(c.msgs, from, seen)
    IN  IF j > Len(c.msgs) THEN DonePoll ELSE [c EXCEPT !.i = j, !.pc = "get"]

(***************************************************************************)
(* Variant "mem": src/index.js 1-208.                                      *)
(***************************************************************************)
memVars == <<processedEmails, reviewQueue, nobj>>
perVars == <<state, stateFile>>

InitMem ==
    /\ variant = "mem"
    /\ up = TRUE
    /\ restarts = 0
    /\ processedEmails = {}
    /\ reviewQueue = <<>>
    /\ nobj = 0
    /\ state = "none"
    /\ stateFile = "none"
    /\ poll = [p \in Polls |-> IdlePoll]
    /\ drain = [d \in Drains |-> IdleDrain]
    /\ pubLog = {}
    /\ prevSeen = {}
    /\ mailbox = 0
    /\ unread = {}
    /\ mailLog = {}
    /\ tick = [t \in Ticks |-> IdleTick]
    /\ extraction = NoExtraction

\* A message with "Internal" in its subject is delivered to the mailbox.
MailArrives ==
    /\ mailbox < NIds
    /\ mailbox' = mailbox + 1
    /\ unread' = unread \cup {mailbox + 1}
    /\ UNCHANGED <<variant, extraction, tick, mailLog, up, restarts, memVars, perVars, poll, drain, pubLog, prevSeen>>

\* setInterval(pollEmails, POLL_INTERVAL) fires: pollEmails runs to its first
\* await, gmail.users.messages.list.
MemPollStart(p) ==
    /\ variant = "mem" /\ up
    /\ p = freeSlot(poll, Polls)
    /\ poll' = [poll EXCEPT ![p] = [IdlePoll EXCEPT !.pc = "list",
                                                    !.start = processedEmails]]
    /\ UNCHANGED <<variant, extraction, tick, mailLog, up, unread, restarts, memVars, perVars, drain, pubLog, prevSeen, mailbox>>

\* messages.list settles: a rejection goes to the catch block, no messages
\* returns, otherwise the loop runs to the first messages.get.
MemPollListReturns(p) ==
    /\ variant = "mem" /\ up
    /\ poll[p].pc = "list"
    /\ \/ poll' = [poll EXCEPT ![p] = DonePoll]
       \/ poll' = [poll EXCEPT ![p] =
                      resumeLoop([@ EXCEPT !.msgs = messagesList], 1, processedEmails)]
    /\ UNCHANGED <<variant, extraction, tick, mailLog, up, unread, restarts, memVars, perVars, drain, pubLog, prevSeen, mailbox>>

\* An entry that carries the default subject whatever the message.
memEntryNoSubject(id, oid) ==
    [subject |-> subjectHeaderOf(1),
     body |-> summaryPlaceholder(subjectHeaderOf(1)),
     oid |-> oid]

\* The queue entry of lines 85-99.
memEntry(id, oid) ==
    [subject |-> subjectHeaderOf(id),
     body |-> summaryPlaceholder(subjectHeaderOf(id)),
     oid |-> oid]

\* messages.get settles: a rejection leaves the loop through the catch block;
\* otherwise the entry is pushed, the id added and the loop goes on.
MemPollGetReturns(p) ==
    /\ variant = "mem" /\ up
    /\ poll[p].pc = "get"
    /\ \/ /\ poll' = [poll EXCEPT ![p] = DonePoll]
          /\ UNCHANGED memVars
       \/ LET id == poll[p].msgs[poll[p].i]
              seen == processedEmails \cup {id}
          IN  /\ reviewQueue' = push(reviewQueue, memEntry(id, nobj + 1))
              /\ nobj' = nobj + 1
              /\ processedEmails' = seen
              /\ poll' = [poll EXCEPT ![p] = resumeLoop(@, @.i + 1, seen)]
    /\ UNCHANGED <<variant, extraction, tick, mailLog, up, unread, restarts, perVars, drain, pubLog, prevSeen, mailbox>>

\* One call of axios.post to /rest/api/content/ for a queue entry.
publishCall(item) == [page |-> confluencePage(item.subject, item.body), src |-> item.oid]

\* The array a handler's for-of loop iterates.
iterated(c) == IF c.live THEN reviewQueue ELSE c.own

\* The iterator moves to index k of array arr and axios.post is called for
\* that element.
postItem(c, arr, k) ==
    [c EXCEPT !.pc = "post", !.i = k, !.pub = Append(c.pub, arr[k].oid)]

\* POST /review/post arrives: postToConfluence returns at once on an empty
\* queue, otherwise its for-of loop awaits the first axios.post.
reviewPost(d) ==
    /\ d = freeSlot(drain, Drains)
    /\ IF Len(reviewQueue) = 0
       THEN /\ drain' = [drain EXCEPT ![d] = [IdleDrain EXCEPT !.pc = "done"]]
            /\ UNCHANGED pubLog
       ELSE /\ drain' = [drain EXCEPT ![d] =
                   postItem([IdleDrain EXCEPT !.live = TRUE], reviewQueue, 1)]
            /\ pubLog' = pubLog \cup {publishCall(reviewQueue[1])}
    /\ UNCHANGED <<variant, extraction, tick, mailLog, up, unread, restarts, memVars, perVars, poll, prevSeen, mailbox>>

\* `reviewQueue = []` seen from handler c: a loop still iterating the old
\* array keeps it.
detach(c, arr) == IF c.pc = "post" /\ c.live THEN [c EXCEPT !.live = FALSE, !.own = arr] ELSE c

\* axios.post settles (a rejection is caught and logged); the array iterator
\* moves on: the next element, read from the array as it is now, is posted,
\* or the loop ends, `reviewQueue = []` runs and the handler responds.
postReturns(d) ==
    /\ drain[d].pc = "post"
    /\ LET c == drain[d]
             arr == iterated(c)
         IN  IF c.i + 1 <= Len(arr)
             THEN /\ drain' = [drain EXCEPT ![d] = postItem(c, arr, c.i + 1)]
                  /\ pubLog' = pubLog \cup {publishCall(arr[c.i + 1])}
                  /\ UNCHANGED reviewQueue
             ELSE /\ drain' = [e \in Drains |->
                         IF e = d
                         THEN [IdleDrain EXCEPT !.pc = "done"]
                         ELSE detach(drain[e], reviewQueue)]
                  /\ reviewQueue' = <<>>
                  /\ UNCHANGED pubLog
    /\ UNCHANGED <<variant, extraction, tick, mailLog, up, unread, restarts, processedEmails, nobj, perVars, poll, prevSeen, mailbox>>

MemReviewPost(d) == variant = "mem" /\ up /\ reviewPost(d)

MemPostReturns(d) == variant = "mem" /\ up /\ postReturns(d)

NextMem ==
    \/ MailArrives
    \/ \E p \in Polls : MemPollStart(p)
    \/ \E p \in Polls : MemPollListReturns(p)
    \/ \E p \in Polls : MemPollGetReturns(p)
    \/ \E d \in Drains : MemReviewPost(d)
    \/ \E d \in Drains : MemPostReturns(d)

SpecMem == InitMem /\ [][NextMem]_vars

(***************************************************************************)
(* Variant "per": src/index.js 210-451.                                    *)
(***************************************************************************)
NoFile == <<"#ENOENT">>
Truncated == <<"#truncated">>
Undefined == <<"#undefined">>
Null == <<"#null">>

\* let state = { processedEmails: [], reviewQueue: [] }
defaultState == [processedEmails |-> <<>>, reviewQueue |-> <<>>]

\* JSON.stringify(state, null, 2): a text describing the object, whose keys
\* all have defined values (ids, strings, null, true, arrays of them).
jsonStringify(st) == <<"json", [k \in DOMAIN st |-> st[k]]>>

\* What JSON.stringify keeps of the persisted revision's state: a property of
\* a queue entry whose value is undefined is left out (null is kept).
jsonEntry(e) == [k \in {f \in DOMAIN e : f = "id" \/ e[f] # Undefined} |-> e[k]]
withoutUndefined(st) ==
    [st EXCEPT !.reviewQueue = [k \in 1..Len(st.reviewQueue) |-> jsonEntry(st.reviewQueue[k])]]

\* JSON.parse of a complete text gives the object it describes.
jsonParse(text) == text[2]

\* Lines 265-273: the file is read when it exists; a read or parse error
\* leaves the default state.
loadState(file) ==
    IF file = NoFile \/ file = Truncated THEN defaultState ELSE jsonParse(file)

\* A character class that also takes the lowercase letter of the alphabet.
isLetter(ch) == ch \in {"A", "Z", "a"}

isUpper(ch) == ch \in {"A", "B", "C", "D", "E", "F", "G", "H", "I", "J", "K", "L", "M",
                       "N", "O", "P", "Q", "R", "S", "T", "U", "V", "W", "X", "Y", "Z"}
isDigit(ch) == ch \in {"0", "1", "2", "3", "4", "5", "6", "7", "8", "9"}

\* The last position of the run of capitals (upper) or digits that begins at
\* k; k - 1 when there is none.
RECURSIVE runEnd(_, _, _)
runEnd(s, k, upper) ==
    IF k <= Len(s) /\ (IF upper THEN isUpper(s[k]) ELSE isDigit(s[k]))
    THEN runEnd(s, k + 1, upper)
    ELSE k - 1

\* Where the match of /[A-Z]+-\d+/ that begins at k ends (0: none begins
\* there).
matchEnd(s, k) ==
    LET e == runEnd(s, k, TRUE)
    IN  IF e >= k /\ e + 2 <= Len(s) /\ s[e + 1] = "-" /\ isDigit(s[e + 2])
        THEN runEnd(s, e + 2, FALSE)
        ELSE 0

\* An extraction that gives undefined, not null, without a match.
extractOrUndefined(subject) ==
    LET starts == {k \in 1..Len(subject) : matchEnd(subject, k) > 0}
    IN  IF starts = {} THEN Undefined
        ELSE LET k == CHOOSE x \in starts : \A y \in starts : x <= y
             IN  SubSeq(subject, k, matchEnd(subject, k))

\* subject.match(/[A-Z]+-\d+/): match[0] of the leftmost match, or null.
extractJiraTicket(subject) ==
    LET starts == {k \in 1..Len(subject) : matchEnd(subject, k) > 0}
    IN  IF starts = {} THEN Null
        ELSE LET k == CHOOSE x \in starts : \A y \in starts : x <= y
             IN  SubSeq(subject, k, matchEnd(subject, k))

\* headers.find((h) => h.name === "Subject")?.value || "No Subject", for a
\* header value (absent, or a string, of which the empty one is falsy).
subjectHeader(value) ==
    IF value = NoHeader \/ value = <<>>
    THEN <<"N", "o", " ", "S", "u", "b", "j", "e", "c", "t">>
    ELSE value

\* The queue entry of lines 317-323.
perEntry(id) ==
    [id |-> id,
     subject |-> subjectHeaderOf(id),
     summary |-> bodyOf(id),
     from |-> fromHeaderOf(id),
     jiraTicket |-> extractJiraTicket(subjectHeaderOf(id))]

\* One POST /review/post handler of this revision.
\*   pc  "idle" (not arrived) | "post" | "done" (responded) | "noreply"
\*   subject, summary  req.body, while axios.post is pending
\*   ok  once the handler has ended: whether axios.post was fulfilled
IdleReq == [pc |-> "idle", subject |-> <<>>, summary |-> <<>>, ok |-> TRUE]

\* The request bodies explored.
ReqSubjects == {subjectHeaderOf(id) : id \in Ids}
ReqSummaries == {bodyOf(id) : id \in Ids}

InitPer ==
    /\ variant = "per"
    /\ up = TRUE
    /\ restarts = 0
    /\ processedEmails = {}
    /\ reviewQueue = <<>>
    /\ nobj = 0
    /\ state = defaultState
    /\ stateFile = NoFile
    /\ poll = [p \in Polls |-> IdlePoll]
    /\ drain = [d \in Drains |-> IdleReq]
    /\ pubLog = {}
    /\ prevSeen = {}
    /\ mailbox = 0
    /\ unread = {}
    /\ mailLog = {}
    /\ tick = [t \in Ticks |-> IdleTick]
    /\ extraction = NoExtraction

\* Pending callbacks and requests of a process that stops are gone: they
\* neither return nor respond.
killed(slots, idle) ==
    [x \in DOMAIN slots |->
        IF slots[x].pc \in {"idle", "done"} THEN slots[x] ELSE [idle EXCEPT !.pc = "killed"]]

\* The process stops and is started again with `file` on disk: the module
\* is evaluated anew and loads the file.
perRestarted(file) ==
    /\ restarts < MaxRestarts
    /\ restarts' = restarts + 1
    /\ prevSeen' = prevSeen \cup Range(state.processedEmails)
    /\ stateFile' = file
    /\ state' = loadState(file)
    /\ poll' = killed(poll, IdlePoll)
    /\ drain' = killed(drain, IdleReq)

\* saveState() with the state st while the slots become ps and ds:
\* fs.writeFileSync replaces the file; or it throws and leaves the file, and
\* the caller's slots become psT and dsT; or the process dies while the file
\* is open for writing, which leaves the beginning of the new text.
saveState(st, ps, ds, psT, dsT) ==
    \/ /\ stateFile' = jsonStringify(withoutUndefined(st))
       /\ state' = st /\ poll' = ps /\ drain' = ds
       /\ UNCHANGED <<restarts, prevSeen>>
    \/ /\ state' = st /\ poll' = psT /\ drain' = dsT
       /\ UNCHANGED <<stateFile, restarts, prevSeen>>
    \/ perRestarted(Truncated)

\* The process is stopped (a crash, a deploy) and started again.
PerRestart ==
    /\ variant = "per" /\ up
    /\ perRestarted(stateFile)
    /\ UNCHANGED <<variant, extraction, tick, mailLog, up, unread, memVars, pubLog, mailbox>>

PerPollStart(p) ==
    /\ variant = "per" /\ up
    /\ p = freeSlot(poll, Polls)
    /\ poll' = [poll EXCEPT ![p] =
           [IdlePoll EXCEPT !.pc = "list"]]
    /\ UNCHANGED <<variant, extraction, tick, mailLog, up, unread, restarts, memVars, perVars, drain, pubLog, prevSeen, mailbox>>

\* The rest of pollEmails once an await settled, with the loop at `from` of
\* cycle c and the state st: on to the next messages.get, or out of the
\* loop to saveState(), a throw of which is caught at line 330.
perContinue(p, c, st, from) ==
    LET n == resumeLoop(c, from, Range(st.processedEmails))
        ps == [poll EXCEPT ![p] = n]
    IN  IF n.pc = "done"
        THEN saveState(st, ps, drain, ps, drain)
        ELSE /\ poll' = ps /\ state' = st
             /\ UNCHANGED <<stateFile, drain, restarts, prevSeen>>

\* messages.list settles: rejected (catch), no messages (return at line
\* 293), or the loop starts.
PerPollListReturns(p) ==
    /\ variant = "per" /\ up
    /\ poll[p].pc = "list"
    /\ \/ /\ poll' = [poll EXCEPT ![p] = DonePoll]
          /\ UNCHANGED <<perVars, drain, restarts, prevSeen>>
       \/ IF messagesList = <<>>
          THEN /\ poll' = [poll EXCEPT ![p] = DonePoll]
               /\ UNCHANGED <<perVars, drain, restarts, prevSeen>>
          ELSE perContinue(p, [poll[p] EXCEPT !.msgs = messagesList], state, 1)
    /\ UNCHANGED <<variant, extraction, tick, mailLog, up, unread, memVars, pubLog, mailbox>>

\* messages.get settles: a rejection leaves the loop through the catch block
\* (line 330) without saveState(); otherwise the entry and the id are
\* pushed and the loop goes on.
PerPollGetReturns(p) ==
    /\ variant = "per" /\ up
    /\ poll[p].pc = "get"
    /\ \/ /\ poll' = [poll EXCEPT ![p] = DonePoll]
          /\ UNCHANGED <<perVars, drain, restarts, prevSeen>>
       \/ LET id == poll[p].msgs[poll[p].i]
              st == [state EXCEPT !.reviewQueue = push(@, perEntry(id)),
                                  !.processedEmails = push(@, id)]
          IN  perContinue(p, poll[p], st, poll[p].i + 1)
    /\ UNCHANGED <<variant, extraction, tick, mailLog, up, unread, memVars, pubLog, mailbox>>

\* POST /review/post arrives: the handler calls postToConfluence with the
\* subject and summary of the request body and awaits axios.post.
PerReviewPost(d) ==
    /\ variant = "per" /\ up
    /\ d = freeSlot(drain, Drains)
    /\ \E subject \in ReqSubjects, summary \in ReqSummaries :
          drain' = [drain EXCEPT ![d] =
              [IdleReq EXCEPT !.pc = "post", !.subject = subject, !.summary = summary]]
    /\ UNCHANGED <<variant, extraction, tick, mailLog, up, unread, restarts, memVars, perVars, poll, pubLog, prevSeen, mailbox>>

\* A filter that keeps every entry.
withoutSubjectKeep(queue, subject) == queue

\* state.reviewQueue.filter((i) => i.subject !== subject)
withoutSubject(queue, subject) == SelectSeq(queue, LAMBDA i : i.subject # subject)

\* axios.post settles (postToConfluence catches and logs a rejection): the
\* entries with the subject are filtered out, saveState() runs and the
\* response is sent; when saveState() throws the handler's promise rejects
\* and no response is sent.
PerPostReturns(d) ==
    /\ variant = "per" /\ up
    /\ drain[d].pc = "post"
    /\ \E ok \in BOOLEAN :
          LET c == [IdleReq EXCEPT !.ok = ok]
              st == [state EXCEPT !.reviewQueue = withoutSubject(@, drain[d].subject)]
          IN  saveState(st, poll, [drain EXCEPT ![d] = [c EXCEPT !.pc = "done"]],
                            poll, [drain EXCEPT ![d] = [c EXCEPT !.pc = "noreply"]])
    /\ UNCHANGED <<variant, extraction, tick, mailLog, up, unread, memVars, pubLog, mailbox>>

NextPer ==
    \/ MailArrives
    \/ PerRestart
    \/ \E p \in Polls : PerPollStart(p)
    \/ \E p \in Polls : PerPollListReturns(p)
    \/ \E p \in Polls : PerPollGetReturns(p)
    \/ \E d \in Drains : PerReviewPost(d)
    \/ \E d \in Drains : PerPostReturns(d)

SpecPer == InitPer /\ [][NextPer]_vars

(***************************************************************************)
(* Variants "mem" and "per" side by side: the two revisions of             *)
(* src/index.js, each from its own initial state.                          *)
(***************************************************************************)
InitIndex == InitMem \/ InitPer

NextIndex == NextMem \/ NextPer

SpecIndex == InitIndex /\ [][NextIndex]_vars

(***************************************************************************)
(* Variant "per", the queue-processing timer: processReviewQueue,          *)
(* getJiraTicketInfo and sendReviewEmail (src/index.js 342-397), run on    *)
(* the state a poll cycle has left behind.                                 *)
(***************************************************************************)

\* res.data of GET /rest/api/3/issue/{ticketId}: the name of the issue's
\* status and the assignee's emailAddress (undefined without an assignee).
StatusNames == {"Resolved", "Done", "In Progress"}
Assignees == {<<"a", "@", "x">>, Undefined}
Issues == [status : StatusNames, assignee : Assignees]

\* The object getJiraTicketInfo returns for a fulfilled axios.get.
getJiraTicketInfo(issue) ==
    [assignee |-> issue.assignee, resolved |-> issue.status = "Done"]

\* One call of gmail.users.messages.send by sendReviewEmail.
reviewMail(toEmail, subject, summary, ok) ==
    [to |-> toEmail,
     subject |-> <<"Review KB Draft - ">> \o subject,
     text |-> summary,
     ok |-> ok]

\* One poll cycle was handed the messages of the mailbox, queued them and
\* saved the state (with an empty mailbox it returned before saveState).
InitQueue ==
    /\ variant = "per"
    /\ up = TRUE
    /\ restarts = 0
    /\ processedEmails = {}
    /\ reviewQueue = <<>>
    /\ nobj = 0
    /\ mailbox \in 0..NIds
    /\ state = [processedEmails |-> messagesList,
                reviewQueue |-> [k \in 1..Len(messagesList) |-> perEntry(messagesList[k])]]
    /\ stateFile = IF mailbox = 0 THEN NoFile ELSE jsonStringify(state)
    /\ poll = [p \in Polls |-> IF p = 1 THEN DonePoll ELSE IdlePoll]
    /\ drain = [d \in Drains |-> IdleReq]
    /\ pubLog = {}
    /\ prevSeen = {}
    /\ unread = 1..mailbox
    /\ mailLog = {}
    /\ tick = [t \in Ticks |-> IdleTick]
    /\ extraction = NoExtraction

\* The for-of loop of processReviewQueue from position `from` on: entries
\* without a ticket get null from getJiraTicketInfo at once and are skipped;
\* the loop awaits axios.get for the first entry with a ticket, or ends.
RECURSIVE nextTicket(_, _)
nextTicket(queue, from) ==
    IF from > Len(queue) THEN Len(queue) + 1
    ELSE IF queue[from].jiraTicket = Null THEN nextTicket(queue, from + 1)
    ELSE from

tickContinue(c, from) ==
    LET j == nextTicket(state.reviewQueue, from)
    IN  IF j > Len(state.reviewQueue)
        THEN [c EXCEPT !.pc = "done", !.to = Undefined]
        ELSE [c EXCEPT !.pc = "lookup", !.i = j, !.to = Undefined]

\* A tick of setInterval(processReviewQueue, 2 * 60 * 1000).
ProcessReviewQueueStart(t) ==
    /\ variant = "per" /\ up
    /\ t = freeSlot(tick, Ticks)
    /\ tick' = [tick EXCEPT ![t] = tickContinue(IdleTick, 1)]
    /\ UNCHANGED <<variant, extraction, mailLog, up, unread, restarts, memVars, perVars, poll, drain, pubLog, prevSeen, mailbox>>

\* axios.get of getJiraTicketInfo settles.  A rejection is caught and gives
\* null, and the loop continues; otherwise the mail is sent when the info
\* says resolved and has an assignee, else the loop continues.
GetJiraTicketInfoReturns(t) ==
    /\ variant = "per" /\ up
    /\ tick[t].pc = "lookup"
    /\ \/ tick' = [tick EXCEPT ![t] = tickContinue([tick[t] EXCEPT !.issue = NoIssue], tick[t].i + 1)]
       \/ \E issue \in Issues :
             LET jiraInfo == getJiraTicketInfo(issue)
                 c == [tick[t] EXCEPT !.issue = issue]
             IN  IF jiraInfo.resolved /\ jiraInfo.assignee # Undefined
                 THEN tick' = [tick EXCEPT ![t] = [c EXCEPT !.pc = "send", !.to = jiraInfo.assignee]]
                 ELSE tick' = [tick EXCEPT ![t] = tickContinue(c, c.i + 1)]
    /\ UNCHANGED <<variant, extraction, mailLog, up, unread, restarts, memVars, perVars, poll, drain, pubLog, prevSeen, mailbox>>

\* messages.send of sendReviewEmail settles: fulfilled, the loop continues;
\* rejected, the rejection leaves sendReviewEmail and processReviewQueue,
\* neither of which has a try block.
SendReviewEmailReturns(t) ==
    /\ variant = "per" /\ up
    /\ tick[t].pc = "send"
    /\ LET item == state.reviewQueue[tick[t].i]
       IN  \E ok \in BOOLEAN :
              /\ mailLog' = mailLog \cup {reviewMail(tick[t].to, item.subject, item.summary, ok)}
              /\ tick' = [tick EXCEPT ![t] =
                            IF ok THEN tickContinue(tick[t], tick[t].i + 1)
                            ELSE [tick[t] EXCEPT !.pc = "rejected"]]
    /\ UNCHANGED <<variant, extraction, up, unread, restarts, memVars, perVars, poll, drain, pubLog, prevSeen, mailbox>>

NextQueue ==
    \E t \in Ticks :
        \/ ProcessReviewQueueStart(t)
        \/ GetJiraTicketInfoReturns(t)
        \/ SendReviewEmailReturns(t)

SpecQueue == InitQueue /\ [][NextQueue]_vars

(***************************************************************************)
(* Variant "per", POST /review/post alone (src/index.js 436-445), on the   *)
(* state a poll cycle has left behind for a mailbox of up to NQueued       *)
(* messages, of which the odd ones all come without a Subject header.      *)
(***************************************************************************)
InitRemoval ==
    /\ variant = "per"
    /\ up = TRUE
    /\ restarts = 0
    /\ processedEmails = {}
    /\ reviewQueue = <<>>
    /\ nobj = 0
    /\ mailbox \in 0..NQueued
    /\ state = [processedEmails |-> messagesList,
                reviewQueue |-> [k \in 1..Len(messagesList) |-> perEntry(messagesList[k])]]
    /\ stateFile = IF mailbox = 0 THEN NoFile ELSE jsonStringify(state)
    /\ poll = [p \in Polls |-> IF p = 1 THEN DonePoll ELSE IdlePoll]
    /\ drain = [d \in Drains |-> IdleReq]
    /\ pubLog = {}
    /\ prevSeen = {}
    /\ unread = 1..mailbox
    /\ mailLog = {}
    /\ tick = [t \in Ticks |-> IdleTick]
    /\ extraction = NoExtraction

NextRemoval ==
    \E d \in Drains :
        \/ PerReviewPost(d)
        \/ PerPostReturns(d)

SpecRemoval == InitRemoval /\ [][NextRemoval]_vars

(***************************************************************************)
(* Variant "per", ticket-key extraction: what pollEmails computes for the  *)
(* jiraTicket field from the Subject header of a fetched message           *)
(* (src/index.js 305, 322, 336-339), for every header value up to MaxLen   *)
(* characters of a small alphabet, and for a message without the header.   *)
(***************************************************************************)
Alphabet == {"A", "Z", "a", "-", "1"}
HeaderValues == UNION {[1..n -> Alphabet] : n \in 0..MaxLen} \cup {NoHeader}

\* A TypeError: subject.match called on a value that is not a string.
Throws == <<"#TypeError">>

\* extractJiraTicket(subjectHeader) as called at line 322.
jiraTicketOf(subject) ==
    IF subject = NoHeader THEN Throws ELSE extractJiraTicket(subject)

InitExtract ==
    /\ variant = "per"
    /\ up = TRUE
    /\ restarts = 0
    /\ processedEmails = {}
    /\ reviewQueue = <<>>
    /\ nobj = 0
    /\ state = defaultState
    /\ stateFile = NoFile
    /\ poll = [p \in Polls |-> IdlePoll]
    /\ drain = [d \in Drains |-> IdleReq]
    /\ pubLog = {}
    /\ prevSeen = {}
    /\ mailbox = 0
    /\ unread = {}
    /\ mailLog = {}
    /\ tick = [t \in Ticks |-> IdleTick]
    /\ \E value \in HeaderValues :
          extraction = [NoExtraction EXCEPT !.pc = "header", !.value = value]

\* Lines 305 and 322 for the fetched message.
ExtractJiraTicket ==
    /\ variant = "per"
    /\ extraction.pc = "header"
    /\ extraction' = [extraction EXCEPT
                         !.pc = "done",
                         !.ticket = jiraTicketOf(subjectHeader(extraction.value))]
    /\ UNCHANGED <<up, restarts, memVars, perVars, poll, drain, pubLog, prevSeen,
                   mailbox, unread, mailLog, tick, variant>>

NextExtract == ExtractJiraTicket

SpecExtract == InitExtract /\ [][NextExtract]_vars

(***************************************************************************)
(* Variant "tix": src/unnamed/part_001 432-537.  `state` is an object with *)
(* a key per handled id (a function on the handled ids), processTickets    *)
(* is called at startup and by the timer, and a handled message loses its  *)
(* UNREAD label, which takes it out of the list query.                     *)
(***************************************************************************)
tixMaxResults == 5

\* res.data.messages of fetchEmails: the unread matches, newest first.
unreadList ==
    LET all == SelectSeq(newestFirst(mailbox, mailbox), LAMBDA id : id \in unread)
    IN  IF Len(all) <= tixMaxResults THEN all ELSE SubSeq(all, 1, tixMaxResults)

\* getEmail: the headers with their defaults; the body is the text/plain
\* part (the one part of the messages that have parts) or payload.body.data
\* || '', which the messages without parts do not carry.
getEmail(id) ==
    [id |-> id,
     from |-> IF FromHeader(id) = NoHeader THEN <<"unknown">> ELSE FromHeader(id),
     subject |-> IF SubjectHeader(id) = NoHeader THEN <<"No subject">> ELSE SubjectHeader(id),
     date |-> <<>>,
     body |-> IF BodyData(id) = NoHeader THEN <<>> ELSE Tail(BodyData(id))]

\* What geminiClient.generateText can answer as response[0].content: a
\* summary, an empty string, or nothing.
Contents == {<<"s">>, <<>>, Undefined}

\* The template literal `${summary}`.
interpolate(v) == IF v = Undefined THEN <<"undefined">> ELSE v

\* pageData of postDraft for a ticket and the summary generated for it.
pageData(ticket, summary) ==
    [title |-> <<"KB Draft - ">> \o ticket.subject,
     id |-> ticket.id, from |-> ticket.from, date |-> ticket.date,
     summary |-> interpolate(summary)]

\* One invocation of processTickets.
\*   pc  "idle" | "list" | "get" | "summ" | "post" | "modify" | "done" |
\*       "rejected" (the promise was rejected; nothing handles it)
\*   msgs, i  the list of the cycle and the position of its loop
\*   gen   while axios.post is pending: response[0].content of the backend
\*   page  while axios.post is pending: the pageData sent
IdleTix == [pc |-> "idle", msgs |-> <<>>, i |-> 0, gen |-> <<>>, page |-> <<>>]

\* `if (state[e.id]) continue;` from position `from` on: the next
\* getEmail, or the end of the loop.
tixResume(c, from, st) ==
    LET j == nextUnprocessed(c.msgs, from, DOMAIN st)
    IN  IF j > Len(c.msgs) THEN [IdleTix EXCEPT !.pc = "done"]
        ELSE [IdleTix EXCEPT !.pc = "get", !.msgs = c.msgs, !.i = j]

\* A process that starts evaluates the module: with no state.json `state`
\* is {}, otherwise JSON.parse(readFileSync) is not guarded and a text that
\* does not parse ends the process; then processTickets() is called and
\* runs to its first await in slot p.
tixStartup(file, slots, p) ==
    IF file = Truncated
    THEN /\ up' = FALSE
         /\ state' = <<>>
         /\ poll' = slots
    ELSE /\ up' = TRUE
         /\ state' = IF file = NoFile THEN <<>> ELSE jsonParse(file)
         /\ poll' = [slots EXCEPT ![p] = [IdleTix EXCEPT !.pc = "list"]]

InitTix ==
    /\ variant = "tix"
    /\ up = TRUE
    /\ restarts = 0
    /\ processedEmails = {}
    /\ reviewQueue = <<>>
    /\ nobj = 0
    /\ state = <<>>
    /\ stateFile = NoFile
    /\ poll = [p \in Polls |-> IF p = 1 THEN [IdleTix EXCEPT !.pc = "list"] ELSE IdleTix]
    /\ drain = [d \in Drains |-> IdleDrain]
    /\ pubLog = {}
    /\ prevSeen = {}
    /\ mailbox = 0
    /\ unread = {}
    /\ mailLog = {}
    /\ tick = [t \in Ticks |-> IdleTick]
    /\ extraction = NoExtraction

\* The process stops and is started again with `file` on disk.
tixRestarted(file) ==
    /\ restarts < MaxRestarts
    /\ freeSlot(poll, Polls) # 0
    /\ restarts' = restarts + 1
    /\ stateFile' = file
    /\ tixStartup(file, killed(poll, IdleTix), freeSlot(poll, Polls))

TixRestart ==
    /\ variant = "tix" /\ up
    /\ tixRestarted(stateFile)
    /\ UNCHANGED <<variant, extraction, tick, mailLog, memVars, drain, pubLog, prevSeen, mailbox, unread>>

\* setInterval(processTickets, 2 * 60 * 1000) fires.
TixStart(p) ==
    /\ variant = "tix" /\ up
    /\ p = freeSlot(poll, Polls)
    /\ poll' = [poll EXCEPT ![p] = [IdleTix EXCEPT !.pc = "list"]]
    /\ UNCHANGED <<variant, extraction, tick, mailLog, up, unread, restarts, memVars, perVars, drain, pubLog, prevSeen, mailbox>>

\* messages.list settles; fetchEmails is awaited outside any try.
TixListReturns(p) ==
    /\ variant = "tix" /\ up
    /\ poll[p].pc = "list"
    /\ \/ poll' = [poll EXCEPT ![p] = [IdleTix EXCEPT !.pc = "rejected"]]
       \/ poll' = [poll EXCEPT ![p] = tixResume([@ EXCEPT !.msgs = unreadList], 1, state)]
    /\ UNCHANGED <<variant, extraction, tick, mailLog, up, unread, restarts, memVars, perVars, drain, pubLog, prevSeen, mailbox>>

\* messages.get settles; getEmail is awaited outside the try, then postDraft
\* awaits generateSummary.
TixGetReturns(p) ==
    /\ variant = "tix" /\ up
    /\ poll[p].pc = "get"
    /\ \/ poll' = [poll EXCEPT ![p] = [IdleTix EXCEPT !.pc = "rejected"]]
       \/ poll' = [poll EXCEPT ![p] = [@ EXCEPT !.pc = "summ"]]
    /\ UNCHANGED <<variant, extraction, tick, mailLog, up, unread, restarts, memVars, perVars, drain, pubLog, prevSeen, mailbox>>

\* generateText settles: a rejection (or an empty response array) goes to
\* the catch block and the loop moves on; otherwise postDraft builds the
\* page from response[0].content and awaits axios.post.
TixSummReturns(p) ==
    /\ variant = "tix" /\ up
    /\ poll[p].pc = "summ"
    /\ \/ poll' = [poll EXCEPT ![p] = tixResume(@, @.i + 1, state)]
       \/ \E content \in Contents :
             poll' = [poll EXCEPT ![p] =
                 [poll[p] EXCEPT !.pc = "post", !.gen = content,
                     !.page = pageData(getEmail(poll[p].msgs[poll[p].i]), content)]]
    /\ UNCHANGED <<variant, extraction, tick, mailLog, up, unread, restarts, memVars, perVars, drain, pubLog, prevSeen, mailbox>>

\* A flagging that marks every message of the mailbox.
flaggedAll(st, id) == [k \in DOMAIN st \cup 1..mailbox |-> TRUE]

\* state[ticket.id] = true
flagged(st, id) == [k \in DOMAIN st \cup {id} |-> TRUE]

\* One call of axios.post by postDraft, for message id, and whether it was
\* fulfilled.
postDraftCall(id, ok) == [src |-> id, ok |-> ok]

\* axios.post settles: a rejection goes to the catch block; otherwise the id
\* is flagged and the file written (a throw of writeFileSync goes to the
\* catch block, a crash while writing leaves a truncated file), then
\* messages.modify is awaited.
TixPostReturns(p) ==
    /\ variant = "tix" /\ up
    /\ poll[p].pc = "post"
    /\ LET c == poll[p]
           st == flagged(state, c.msgs[c.i])
           next == tixResume(c, c.i + 1, st)
           posted == pubLog \cup {postDraftCall(c.msgs[c.i], TRUE)}
       IN  \/ /\ poll' = [poll EXCEPT ![p] = tixResume(c, c.i + 1, state)]
              /\ pubLog' = pubLog \cup {postDraftCall(c.msgs[c.i], FALSE)}
              /\ UNCHANGED <<up, restarts, perVars>>
           \/ /\ state' = st
              /\ stateFile' = jsonStringify(st)
              /\ poll' = [poll EXCEPT ![p] = [IdleTix EXCEPT !.pc = "modify", !.msgs = c.msgs, !.i = c.i]]
              /\ pubLog' = posted
              /\ UNCHANGED <<up, restarts>>
           \/ /\ state' = st
              /\ poll' = [poll EXCEPT ![p] = next]
              /\ pubLog' = posted
              /\ UNCHANGED <<up, restarts, stateFile>>
           \/ /\ tixRestarted(Truncated)
              /\ pubLog' = posted
    /\ UNCHANGED <<variant, extraction, tick, mailLog, memVars, drain, prevSeen, mailbox, unread>>

\* messages.modify settles: the UNREAD label is removed, or the rejection
\* goes to the catch block; the loop moves on.
TixModifyReturns(p) ==
    /\ variant = "tix" /\ up
    /\ poll[p].pc = "modify"
    /\ poll' = [poll EXCEPT ![p] = tixResume(@, @.i + 1, state)]
    /\ \/ unread' = unread \ {poll[p].msgs[poll[p].i]}
       \/ UNCHANGED unread
    /\ UNCHANGED <<variant, extraction, tick, mailLog, up, restarts, memVars, perVars, drain, pubLog, prevSeen, mailbox>>

NextTix ==
    \/ MailArrives
    \/ TixRestart
    \/ \E p \in Polls : TixStart(p)
    \/ \E p \in Polls : TixListReturns(p)
    \/ \E p \in Polls : TixGetReturns(p)
    \/ \E p \in Polls : TixSummReturns(p)
    \/ \E p \in Polls : TixPostReturns(p)
    \/ \E p \in Polls : TixModifyReturns(p)

SpecTix == InitTix /\ [][NextTix]_vars

(***************************************************************************)
(* Variant "jira": src/unnamed/part_001 98-430.  pollJiraTickets searches  *)
(* the resolved issues (here `mailbox` counts them, newest first), has     *)
(* each new one summarised, queues it and mails the assignee; the Set and  *)
(* the queue live in memory, `state` holds the time of the last poll.      *)
(***************************************************************************)
MAX_RESULTS == 20

\* process.env.JIRA_USER, checked at startup to be set.
JIRA_USER == <<"jira@x">>

\* fields?.summary || "No title": odd issues carry no title.
issueTitle(n) == IF n % 2 = 1 THEN <<"No title">> ELSE <<"T", n>>

\* fields?.assignee?.emailAddress of an issue: odd issues have no assignee.
AssigneeEmail(n) == IF n % 2 = 1 THEN Undefined ELSE <<"a", n, "@x">>

\* const assigneeEmail = fields?.assignee?.emailAddress || JIRA_USER
assigneeEmailOf(n) ==
    IF AssigneeEmail(n) = Undefined THEN JIRA_USER ELSE AssigneeEmail(n)

\* `[${issue.key}] ${ticketObject.summary}`
jiraSubject(n) == <<"[", n, "]", " ">> \o issueTitle(n)

\* What getGeminiSummary(ticketObject) resolves to: the candidate's text, or
\* ticket.summary when the answer has no text or the call fails.
Summaries(n) == {<<"g", n>>, issueTitle(n)}

jiraEntry(n, body, oid) == [subject |-> jiraSubject(n), body |-> body, oid |-> oid]

\* The issue key a queue entry was made for: subject is `[key] title`.
keyOf(entry) == entry.subject[2]

\* res.data.issues of the JQL search.
issuesList == newestFirst(mailbox, MAX_RESULTS)

\* Date.now()
Now == <<"#now">>

\* state.lastPollTimestamp = Date.now()
stamped(st) ==
    [k \in DOMAIN st \cup {"lastPollTimestamp"} |->
        IF k = "lastPollTimestamp" THEN Now ELSE st[k]]

\* Lines 121-129: `state` is {} unless state.json exists and parses.
loadJiraState(file) ==
    IF file = NoFile \/ file = Truncated THEN <<>> ELSE jsonParse(file)

InitJira ==
    /\ variant = "jira"
    /\ up = TRUE
    /\ restarts = 0
    /\ processedEmails = {}
    /\ reviewQueue = <<>>
    /\ nobj = 0
    /\ state = <<>>
    /\ stateFile = NoFile
    /\ poll = [p \in Polls |-> IdlePoll]
    /\ drain = [d \in Drains |-> IdleDrain]
    /\ pubLog = {}
    /\ prevSeen = {}
    /\ mailbox = 0
    /\ unread = {}
    /\ mailLog = {}
    /\ tick = [t \in Ticks |-> IdleTick]
    /\ extraction = NoExtraction

\* The process stops and is started again with `file` on disk: the Set and
\* the queue start empty, `state` is loaded.
jiraRestarted(file) ==
    /\ restarts < MaxRestarts
    /\ restarts' = restarts + 1
    /\ stateFile' = file
    /\ state' = loadJiraState(file)
    /\ processedEmails' = {}
    /\ reviewQueue' = <<>>
    /\ poll' = killed(poll, IdlePoll)
    /\ drain' = killed(drain, IdleDrain)

JiraRestart ==
    /\ variant = "jira" /\ up
    /\ jiraRestarted(stateFile)
    /\ UNCHANGED <<variant, extraction, tick, mailLog, up, unread, nobj, pubLog, prevSeen, mailbox>>

\* setInterval(pollJiraTickets, POLL_INTERVAL) fires: the search is awaited.
JiraPollStart(p) ==
    /\ variant = "jira" /\ up
    /\ p = freeSlot(poll, Polls)
    /\ poll' = [poll EXCEPT ![p] = [IdlePoll EXCEPT !.pc = "list",
                                                    !.start = processedEmails]]
    /\ UNCHANGED <<variant, extraction, tick, mailLog, up, unread, restarts, memVars, perVars, drain, pubLog, prevSeen, mailbox>>

\* The loop of cycle c goes on at position `from` with the Set `seen` and
\* the queue `queue`: getGeminiSummary is awaited for the next issue whose
\* key is not in the Set, or the loop ends, the time is stamped and
\* saveState() runs (a throw is caught at line 347; a crash while writing
\* leaves a truncated file).
jiraContinue(p, c, from, seen, queue) ==
    LET n == resumeLoop(c, from, seen)
        ps == [poll EXCEPT ![p] = IF n.pc = "get" THEN [n EXCEPT !.pc = "summ"] ELSE n]
    IN  IF n.pc = "done"
        THEN \/ /\ state' = stamped(state)
                /\ \/ stateFile' = jsonStringify(stamped(state))
                   \/ UNCHANGED stateFile
                /\ poll' = ps /\ processedEmails' = seen /\ reviewQueue' = queue
                /\ UNCHANGED <<restarts, drain>>
             \/ jiraRestarted(Truncated)
        ELSE /\ poll' = ps /\ processedEmails' = seen /\ reviewQueue' = queue
             /\ UNCHANGED <<state, stateFile, restarts, drain>>

\* The search settles: rejected (catch), or the loop starts.
JiraSearchReturns(p) ==
    /\ variant = "jira" /\ up
    /\ poll[p].pc = "list"
    /\ \/ /\ poll' = [poll EXCEPT ![p] = DonePoll]
          /\ UNCHANGED <<processedEmails, reviewQueue, perVars, restarts, drain>>
       \/ jiraContinue(p, [poll[p] EXCEPT !.msgs = issuesList], 1,
                       processedEmails, reviewQueue)
    /\ UNCHANGED <<variant, extraction, tick, mailLog, up, unread, nobj, pubLog, prevSeen, mailbox>>

\* getGeminiSummary resolves: the entry is pushed and sendReviewEmail called,
\* which awaits gmail.users.messages.send.
JiraSummReturns(p) ==
    /\ variant = "jira" /\ up
    /\ poll[p].pc = "summ"
    /\ \E body \in Summaries(poll[p].msgs[poll[p].i]) :
          reviewQueue' = push(reviewQueue, jiraEntry(poll[p].msgs[poll[p].i], body, nobj + 1))
    /\ nobj' = nobj + 1
    /\ poll' = [poll EXCEPT ![p] = [@ EXCEPT !.pc = "send"]]
    /\ UNCHANGED <<variant, extraction, tick, mailLog, up, unread, restarts, processedEmails, perVars, drain, pubLog, prevSeen, mailbox>>

\* One call of gmail.users.messages.send: the review mail for `key` to `to`.
sendCall(key, to, ok) == [key |-> key, to |-> to, ok |-> ok]

\* messages.send settles (sendReviewEmail catches and logs a rejection); the
\* key is added to the Set and the loop goes on.
JiraSendReturns(p) ==
    /\ variant = "jira" /\ up
    /\ poll[p].pc = "send"
    /\ LET key == poll[p].msgs[poll[p].i]
       IN  /\ \E ok \in BOOLEAN :
                 mailLog' = mailLog \cup {sendCall(key, assigneeEmailOf(key), ok)}
           /\ jiraContinue(p, poll[p], poll[p].i + 1, processedEmails \cup {key}, reviewQueue)
    /\ UNCHANGED <<variant, extraction, tick, up, unread, nobj, pubLog, prevSeen, mailbox>>

JiraReviewPost(d) ==
    /\ variant = "jira" /\ up /\ reviewPost(d)
    /\ UNCHANGED mailLog

JiraPostReturns(d) ==
    /\ variant = "jira" /\ up /\ postReturns(d)
    /\ UNCHANGED mailLog

NextJira ==
    \/ MailArrives
    \/ JiraRestart
    \/ \E p \in Polls : JiraPollStart(p)
    \/ \E p \in Polls : JiraSearchReturns(p)
    \/ \E p \in Polls : JiraSummReturns(p)
    \/ \E p \in Polls : JiraSendReturns(p)
    \/ \E d \in Drains : JiraReviewPost(d)
    \/ \E d \in Drains : JiraPostReturns(d)

SpecJira == InitJira /\ [][NextJira]_vars

(***************************************************************************)
(* Variant "per", started on a ./state.json that it or the Jira revision   *)
(* (same STATE_FILE, src/unnamed/part_001 118) has written: the load of    *)
(* src/index.js 265-273 and the poll cycles that follow.                   *)
(***************************************************************************)

\* The parsable texts found in the file: none, the state this revision saves
\* after a poll cycle over n messages, and the object the Jira revision
\* saves, which holds lastPollTimestamp only.
savedAfterPoll(n) ==
    jsonStringify([processedEmails |-> newestFirst(n, maxResults),
                   reviewQueue |-> [k \in 1..n |-> perEntry(newestFirst(n, maxResults)[k])]])
StateDocuments ==
    {NoFile, jsonStringify(stamped(<<>>))} \cup {savedAfterPoll(n) : n \in 0..NIds}

\* state.processedEmails and state.reviewQueue are arrays.
hasLists(st) == {"processedEmails", "reviewQueue"} \subseteq DOMAIN st

InitLoad ==
    /\ variant = "per"
    /\ up = TRUE
    /\ restarts = 0
    /\ processedEmails = {}
    /\ reviewQueue = <<>>
    /\ nobj = 0
    /\ mailbox \in 0..NIds
    /\ stateFile \in StateDocuments
    /\ state = loadState(stateFile)
    /\ poll = [p \in Polls |-> IdlePoll]
    /\ drain = [d \in Drains |-> IdleReq]
    /\ pubLog = {}
    /\ prevSeen = {}
    /\ unread = 1..mailbox
    /\ mailLog = {}
    /\ tick = [t \in Ticks |-> IdleTick]
    /\ extraction = NoExtraction

\* messages.list settles.  With messages to look at and no array in
\* state.processedEmails, `state.processedEmails.includes` at line 297 throws
\* a TypeError, which the catch block at line 330 logs: the cycle ends.
LoadedPollListReturns(p) ==
    IF hasLists(state) \/ messagesList = <<>>
    THEN PerPollListReturns(p)
    ELSE /\ variant = "per" /\ up
         /\ poll[p].pc = "list"
         /\ poll' = [poll EXCEPT ![p] = DonePoll]
         /\ UNCHANGED <<variant, up, restarts, memVars, perVars, drain, pubLog,
                        prevSeen, mailbox, unread, mailLog, tick, extraction>>

NextLoad ==
    \E p \in Polls :
        \/ PerPollStart(p)
        \/ LoadedPollListReturns(p)
        \/ PerPollGetReturns(p)

SpecLoad == InitLoad /\ [][NextLoad]_vars

(***************************************************************************)
(* Variants "pub2" (src/unnamed/part_002) and "pub3" (src/unnamed/         *)
(* part_003): pollEmails publishes a draft for each new message itself;    *)
(* there is no review queue.  In pub2 the publish call is inside the one   *)
(* try of the function and the id is added after it; in pub3 the call has  *)
(* a try of its own and the id is added whatever its outcome.              *)
(***************************************************************************)
\* subjectHeader: pub2 has no default, an absent header is interpolated as
\* "undefined"; pub3 defaults to "No Subject".
pubSubject(v, id) ==
    IF v = "pub2" /\ SubjectHeader(id) = NoHeader THEN <<"undefined">>
    ELSE subjectHeaderOf(id)

\* One settled call of axios.post to the content API for message id.
draftCall(v, id, ok) ==
    [page |-> confluencePage(pubSubject(v, id), summaryPlaceholder(pubSubject(v, id))),
     src |-> id, ok |-> ok]

InitPub ==
    /\ variant \in {"pub2", "pub3"}
    /\ up = TRUE
    /\ restarts = 0
    /\ processedEmails = {}
    /\ reviewQueue = <<>>
    /\ nobj = 0
    /\ state = "none"
    /\ stateFile = "none"
    /\ poll = [p \in Polls |-> IdlePoll]
    /\ drain = [d \in Drains |-> IdleDrain]
    /\ pubLog = {}
    /\ prevSeen = {}
    /\ mailbox = 0
    /\ unread = {}
    /\ mailLog = {}
    /\ tick = [t \in Ticks |-> IdleTick]
    /\ extraction = NoExtraction

\* setInterval(pollEmails, POLL_INTERVAL) fires: pub2 awaits getGmailClient()
\* first, pub3 the list call.
PubPollStart(p) ==
    /\ variant \in {"pub2", "pub3"} /\ up
    /\ p = freeSlot(poll, Polls)
    /\ poll' = [poll EXCEPT ![p] =
           [IdlePoll EXCEPT !.pc = IF variant = "pub2" THEN "auth" ELSE "list",
                            !.start = processedEmails]]
    /\ UNCHANGED <<variant, extraction, tick, mailLog, up, unread, restarts, memVars, perVars, drain, pubLog, prevSeen, mailbox>>

\* auth.getClient() settles (pub2): rejected (catch), or the list call is
\* awaited.
PubAuthReturns(p) ==
    /\ variant = "pub2" /\ up
    /\ poll[p].pc = "auth"
    /\ \/ poll' = [poll EXCEPT ![p] = DonePoll]
       \/ poll' = [poll EXCEPT ![p] = [@ EXCEPT !.pc = "list"]]
    /\ UNCHANGED <<variant, extraction, tick, mailLog, up, unread, restarts, memVars, perVars, drain, pubLog, prevSeen, mailbox>>

\* messages.list settles: rejected (catch), no messages (return), or the
\* loop runs to the first messages.get.
PubListReturns(p) ==
    /\ variant \in {"pub2", "pub3"} /\ up
    /\ poll[p].pc = "list"
    /\ \/ poll' = [poll EXCEPT ![p] = DonePoll]
       \/ poll' = [poll EXCEPT ![p] =
                      resumeLoop([@ EXCEPT !.msgs = messagesList], 1, processedEmails)]
    /\ UNCHANGED <<variant, extraction, tick, mailLog, up, unread, restarts, memVars, perVars, drain, pubLog, prevSeen, mailbox>>

\* messages.get settles: rejected (catch), or axios.post is awaited.
PubGetReturns(p) ==
    /\ variant \in {"pub2", "pub3"} /\ up
    /\ poll[p].pc = "get"
    /\ \/ poll' = [poll EXCEPT ![p] = DonePoll]
       \/ poll' = [poll EXCEPT ![p] = [@ EXCEPT !.pc = "post"]]
    /\ UNCHANGED <<variant, extraction, tick, mailLog, up, unread, restarts, memVars, perVars, drain, pubLog, prevSeen, mailbox>>

\* axios.post settles.  Fulfilled: the id is added and the loop goes on.
\* Rejected: pub2 leaves the loop through the catch of pollEmails with the
\* id not added; pub3 logs it in the inner catch, adds the id and goes on.
PubPostReturns(p) ==
    /\ variant \in {"pub2", "pub3"} /\ up
    /\ poll[p].pc = "post"
    /\ LET id == poll[p].msgs[poll[p].i]
           seen == processedEmails \cup {id}
       IN  \E ok \in BOOLEAN :
              /\ pubLog' = pubLog \cup {draftCall(variant, id, ok)}
              /\ IF ~ok /\ variant = "pub2"
                 THEN /\ poll' = [poll EXCEPT ![p] = DonePoll]
                      /\ UNCHANGED processedEmails
                 ELSE /\ poll' = [poll EXCEPT ![p] = resumeLoop(@, @.i + 1, seen)]
                      /\ processedEmails' = seen
    /\ UNCHANGED <<variant, extraction, tick, mailLog, up, unread, restarts, reviewQueue, nobj, perVars, drain, prevSeen, mailbox>>

NextPub ==
    \/ MailArrives
    \/ \E p \in Polls : PubPollStart(p)
    \/ \E p \in Polls : PubAuthReturns(p)
    \/ \E p \in Polls : PubListReturns(p)
    \/ \E p \in Polls : PubGetReturns(p)
    \/ \E p \in Polls : PubPostReturns(p)

SpecPub == InitPub /\ [][NextPub]_vars

(***************************************************************************)
(* Claims.                                                                 *)
(***************************************************************************)

\* The id a pending cycle has accepted (it passed the dedup test) and is
\* fetching, to enqueue it next.
accepted(c) == IF c.pc = "get" THEN {c.msgs[c.i]} ELSE {}

\* C1: Idempotent intake.  No poll cycle handles (fetches, enqueues) an id
\* that was in the dedup store when that cycle started, however often polls
\* return the same candidates within one process lifetime.
C1_IdempotentIntake ==
    \A p \in Polls : accepted(poll[p]) \cap poll[p].start = {}

\* A cycle that began with a non-empty store, was handed one of the stored
\* ids again, skipped it and is handling a later new id.
C1_Witness ==
    \E p \in Polls :
        /\ poll[p].pc = "get"
        /\ \E k \in 1..(poll[p].i - 1) : poll[p].msgs[k] \in poll[p].start

\* C4: Order preservation.  Within one drain the publish calls are issued
\* for the entries of the queue in the order they were enqueued: the calls
\* made so far are for the first entries of the iterated array, one each, and
\* object ids (given out in push order) increase along them.
C4_OrderPreserved ==
    \A d \in Drains :
        LET c == drain[d]
        IN  c.pc = "post" =>
              /\ Len(c.pub) = c.i
              /\ \A k \in 1..Len(c.pub) : c.pub[k] = iterated(c)[k].oid
              /\ \A j, k \in 1..Len(c.pub) : j < k => c.pub[j] < c.pub[k]

\* A drain that has issued publish calls for two entries, the second of them
\* pushed by a poll cycle after the drain began.
C4_Witness ==
    \E d \in Drains :
        /\ drain[d].pc = "post"
        /\ Len(drain[d].pub) >= 2
        /\ drain[d].live
        /\ Len(reviewQueue) > Len(drain[d].pub)

\* The entry a handler calls the publisher for in this step.
issuedNow(d) ==
    IF drain'[d].pub # drain[d].pub /\ drain'[d].pub # <<>>
    THEN {drain'[d].pub[Len(drain'[d].pub)]}
    ELSE {}

\* C10: At most one publish per entry.  Whatever the interleaving of drain
\* requests and poll cycles, no publish call is issued for a queue entry for
\* which one was issued before.
C10_AtMostOnePublish ==
    [][\A d \in Drains : \A o \in issuedNow(d) : \A c \in pubLog : c.src # o]_vars

\* C2: Dedup survives restarts.  No poll cycle handles an id that was
\* recorded as processed by a poll cycle of an earlier process lifetime.
C2_DedupSurvivesRestart ==
    \A p \in Polls : accepted(poll[p]) \cap prevSeen = {}

\* C3: Failed publish keeps the entry.  When POST /review/post returns after
\* a publish call that failed, the queue entries it tried to publish (those
\* with the subject of the request) are still in the review queue.
C3_FailedPublishKept ==
    [][\A d \in Drains :
          (/\ variant = "per" /\ restarts' = restarts
           /\ drain[d].pc = "post" /\ drain'[d].pc = "done" /\ ~drain'[d].ok)
          => \A e \in Range(state.reviewQueue) :
                e.subject = drain[d].subject => e \in Range(state'.reviewQueue)]_vars

\* C5: Partial-cycle resilience.  When a poll cycle ends, every candidate of
\* the cycle other than the one whose fetch it was awaiting is recorded as
\* processed: a failure on one item does not keep the others from being
\* handled.
C5_PartialCycleResilience ==
    [][\A p \in Polls :
          (/\ variant = "per" /\ restarts' = restarts
           /\ poll[p].pc = "get" /\ poll'[p].pc = "done")
          => \A k \in 1..Len(poll[p].msgs) :
                k # poll[p].i => poll[p].msgs[k] \in Range(state'.processedEmails)]_vars

\* C6: Atomic persistence.  Whatever happens during a state write, the file
\* on disk is a complete state, never a truncated text.
C6_AtomicPersistence == stateFile # Truncated

\* C9: No publish without staging.  Every publish call is for an entry that
\* is in the review queue when the call is made: the subject and summary
\* sent are those of a queued entry.
C9_NoPublishWithoutStaging ==
    [][\A d \in Drains :
          (variant = "per" /\ drain[d].pc = "idle" /\ drain'[d].pc = "post")
          => \E e \in Range(state.reviewQueue) :
                e.subject = drain'[d].subject /\ e.summary = drain'[d].summary]_vars

\* C7: Corrupt state at load.  Whatever state.json holds when the process
\* starts, startup does not fail: the process is running.
C7_CorruptStateTolerated == up

\* C8: Best-effort enrichment.  When the summarization backend returned an
\* empty or absent result for an item, the summary in the draft published
\* for it is the item's raw content.
C8_BestEffortEnrichment ==
    \A p \in Polls :
        (variant = "tix" /\ poll[p].pc = "post" /\ poll[p].gen \in {<<>>, Undefined})
        => poll[p].page.summary = getEmail(poll[p].msgs[poll[p].i]).body

\* C11: No self-overlap.  At most one poll cycle is between its start and
\* its end at any time: a tick of the timer does not start pollEmails while
\* an earlier invocation is still awaiting an external call.
C11_NoSelfOverlap ==
    \A p, q \in Polls :
        (poll[p].pc \in {"list", "get"} /\ poll[q].pc \in {"list", "get"}) => p = q

\* C12: Seen is recorded at queue-entry time.  In every state, await points
\* of a poll cycle included, the key of every entry in the review queue is
\* in the dedup store.
C12_SeenAtQueueTime ==
    variant = "jira" =>
        \A k \in 1..Len(reviewQueue) : keyOf(reviewQueue[k]) \in processedEmails

\* The keys whose review mail was attempted and has never been sent.
unnotified(log) ==
    {k \in Ids : /\ \E c \in log : c.key = k /\ ~c.ok
                 /\ ~\E c \in log : c.key = k /\ c.ok}

\* The candidates the loop of cycle p passes over in this step without
\* handling them.
passedOver(p) ==
    LET msgs == IF poll[p].pc = "list" THEN poll'[p].msgs ELSE poll[p].msgs
        from == IF poll[p].pc = "list" THEN 1 ELSE poll[p].i + 1
        to == IF poll'[p].pc = "summ" THEN poll'[p].i - 1 ELSE Len(msgs)
    IN  IF \/ poll[p].pc = "list" /\ poll'[p].pc = "summ"
           \/ poll[p].pc = "send" /\ poll'[p].pc \in {"summ", "done"}
        THEN {msgs[k] : k \in from..to}
        ELSE {}

\* C13: Notify failure is retried.  A later poll cycle does not pass over an
\* issue whose review mail failed and was never sent: it attempts the
\* notification again.
C13_NotifyRetried ==
    [][variant = "jira" => \A p \in Polls : passedOver(p) \cap unnotified(mailLog') = {}]_vars

\* C14: Removal is committed before the success reply.  When a handler of
\* POST /review/post whose publish call succeeded sends its response, no
\* entry with the subject it published is in state.reviewQueue and
\* state.json holds that state.
C14_RemovalCommittedBeforeReply ==
    [][\A d \in Drains :
          (/\ variant = "per"
           /\ drain[d].pc = "post" /\ drain'[d].pc = "done" /\ drain'[d].ok)
          => /\ \A e \in Range(state'.reviewQueue) : e.subject # drain[d].subject
             /\ stateFile' = jsonStringify(state')]_vars

\* The only request so far published successfully and was answered; an
\* entry had been queued, the queue is empty and the file holds that state.
C14_Witness ==
    /\ variant = "per"
    /\ drain[1].pc = "done" /\ drain[1].ok
    /\ \A d \in Drains \ {1} : drain[d].pc = "idle"
    /\ state.processedEmails # <<>>
    /\ state.reviewQueue = <<>>
    /\ stateFile = jsonStringify(state)

\* C15: No error escapes a cycle.  No invocation of a scheduled function
\* ends with its promise rejected by the error of an external call.
C15_NoErrorEscapes ==
    variant = "tix" => \A p \in Polls : poll[p].pc # "rejected"

\* The ids whose draft was attempted and has never been created.
unpublished(log) ==
    {k \in Ids : /\ \E c \in log : c.src = k /\ ~c.ok
                 /\ ~\E c \in log : c.src = k /\ c.ok}

\* The candidates after the current one that cycle p leaves without a fetch
\* in this step, in which a publish call settled.
leftBehind(p) ==
    LET to == IF poll'[p].pc = "get" THEN poll'[p].i - 1 ELSE Len(poll[p].msgs)
    IN  IF poll[p].pc = "post" /\ poll'[p].pc \in {"get", "done"}
        THEN {poll[p].msgs[k] : k \in (poll[p].i + 1)..to}
        ELSE {}

\* C16: Publish failure is isolated and retried.  When a publish call of a
\* cycle has settled, the candidates the cycle goes past without handling
\* them are ones already processed (a failure does not keep the other new
\* items from being published) and none of them is an item whose publish
\* failed and never succeeded (a failed item is attempted again).
C16_PublishFailureIsolated ==
    [][(variant \in {"pub2", "pub3"}) =>
          \A p \in Polls :
              (leftBehind(p) \subseteq processedEmails') /\
              (leftBehind(p) \cap unpublished(pubLog') = {})]_vars

\* C17: Manual trigger always answers.  No handler of POST /review/post ends
\* without having sent a response.
C17_AlwaysAnswers ==
    variant = "per" => \A d \in Drains : drain[d].pc # "noreply"

\* C18: Empty drain.  A request to POST /review/post that finds the review
\* queue empty makes no publish call.
C18_EmptyDrain ==
    [][\A d \in Drains :
          (variant = "per" /\ drain[d].pc = "idle" /\ state.reviewQueue = <<>>)
          => drain'[d].pc # "post"]_vars

\* Cycle p's messages.get is fulfilled in this step: it appends an entry.
handles(p) ==
    poll[p].pc = "get" /\ poll'[p] # poll[p] /\ reviewQueue' # reviewQueue

\* The candidates the loop of cycle p passes over in this step without
\* appending an entry for them.
skips(p) ==
    LET msgs == IF poll[p].pc = "list" THEN poll'[p].msgs ELSE poll[p].msgs
        from == IF poll[p].pc = "list" THEN 1 ELSE poll[p].i + 1
        to == IF poll'[p].pc = "get" THEN poll'[p].i - 1 ELSE Len(msgs)
    IN  IF (poll[p].pc = "list" /\ poll'[p].pc = "get") \/ handles(p)
        THEN {msgs[k] : k \in from..to}
        ELSE {}

C20_ResolvedNotified ==
    [][\A t \in Ticks :
          (/\ variant = "per" /\ tick[t].pc = "lookup" /\ tick'[t] # tick[t]
           /\ tick'[t].issue.status = "Resolved"
           /\ tick'[t].issue.assignee # Undefined)
          => (tick'[t].pc = "send" /\ tick'[t].to = tick'[t].issue.assignee)]_vars

\* C21: Unresolvable assignee leaves the entry queued and un-notified.  No
\* review mail is sent for an issue for which the tracker gives no assignee
\* email.
C21_UnresolvableUnnotified ==
    variant = "jira" => \A c \in mailLog : AssigneeEmail(c.key) # Undefined

\* A word made of one or more capitals, a hyphen, and one or more digits.
Capitals == {"A", "B", "C", "D", "E", "F", "G", "H", "I", "J", "K", "L", "M",
             "N", "O", "P", "Q", "R", "S", "T", "U", "V", "W", "X", "Y", "Z"}
Digits == {"0", "1", "2", "3", "4", "5", "6", "7", "8", "9"}
keyShape(w) ==
    \E h \in 2..(Len(w) - 1) :
        /\ w[h] = "-"
        /\ \A k \in 1..(h - 1) : w[k] \in Capitals
        /\ \A k \in (h + 1)..Len(w) : w[k] \in Digits

\* The substrings of s of that shape, as <<first, last>> positions.
keysIn(s) ==
    {ab \in (1..Len(s)) \X (1..Len(s)) :
        ab[1] <= ab[2] /\ keyShape(SubSeq(s, ab[1], ab[2]))}

\* The first of them, taken as far as it goes; null when there is none.
firstKey(s) ==
    IF keysIn(s) = {} THEN Null
    ELSE LET a == CHOOSE x \in {ab[1] : ab \in keysIn(s)} :
                     \A ab \in keysIn(s) : x <= ab[1]
             b == CHOOSE y \in {ab[2] : ab \in {cd \in keysIn(s) : cd[1] = a}} :
                     \A ab \in keysIn(s) : ab[1] = a => ab[2] <= y
         IN  SubSeq(s, a, b)

\* C22: Ticket-key extraction.  For every Subject header value poll can be
\* given, the jiraTicket computed is the first substring of the subject made
\* of capitals, a hyphen and digits, null when the subject has none (lowercase
\* letters do not count), and the call does not throw.
C22_TicketKeyExtraction ==
    (variant = "per" /\ extraction.pc = "done") =>
        /\ extraction.ticket # Throws
        /\ extraction.ticket = firstKey(subjectHeader(extraction.value))

\* A subject with two keys: the first is the one extracted.
C22_Witness ==
    /\ extraction.pc = "done"
    /\ extraction.value = <<"A", "-", "1", "Z", "-", "1">>
    /\ extraction.ticket = <<"A", "-", "1">>

\* C23: Persisted state follows every mutating cycle.  When a poll cycle
\* ends early because the fetch of a later item is rejected, alone and with
\* the process still running, state.json holds the dedup list and the queue
\* that are in memory.
C23_PersistedAfterCycle ==
    [][\A p \in Polls :
          (/\ variant = "per" /\ restarts' = restarts
           /\ poll[p].pc = "get" /\ poll'[p].pc = "done" /\ state' = state
           /\ \A q \in Polls \ {p} : poll[q].pc \in {"idle", "done"})
          => loadState(stateFile') = state']_vars

\* C24: In-flight review survives restart.  What a poll cycle writes to
\* state.json when it completes loads back as the dedup list and the queue
\* that were in memory, entry by entry and in order, and a restart takes its
\* state from the file as it was left.
C24_SurvivesRestart ==
    [][variant = "per" =>
          /\ \A p \in Polls :
                (/\ poll[p].pc \in {"list", "get"} /\ poll'[p].pc = "done"
                 /\ stateFile' # stateFile /\ restarts' = restarts)
                => loadState(stateFile') = state'
          /\ (restarts' = restarts + 1 /\ stateFile' = stateFile)
                => state' = loadState(stateFile)]_vars

\* One poll cycle queued two messages and saved; the process was started
\* again and nothing has run since: both entries are in the queue, in order.
C24_Witness ==
    /\ variant = "per" /\ restarts = 1 /\ up
    /\ \A p \in Polls \ {1} : poll[p].pc = "idle"
    /\ \A d \in Drains : drain[d].pc = "idle"
    /\ Len(state.reviewQueue) = 2
    /\ state.reviewQueue[1] = perEntry(2) /\ state.reviewQueue[2] = perEntry(1)
    /\ state.processedEmails = <<2, 1>>

\* C25: No entry is dropped unpublished.  Whatever the interleaving of poll
\* cycles and drain requests, an entry that leaves the review queue is one a
\* publish call has been issued for.
C25_NoEntryDropped ==
    [][variant = "mem" =>
          \A k \in 1..Len(reviewQueue) :
              reviewQueue[k] \notin Range(reviewQueue')
              => \E c \in pubLog' : c.src = reviewQueue[k].oid]_vars

\* C26: Each id is enqueued at most once under interleaving.  Within one
\* process lifetime the review queue never holds two entries made for the
\* same message id, also when poll cycles overlap.
C26_EnqueuedOnce ==
    (variant = "per" /\ restarts = 0) =>
        \A j, k \in 1..Len(state.reviewQueue) :
            j < k => state.reviewQueue[j].id # state.reviewQueue[k].id

\* C27: At most one review notification per entry.  A queue-processing tick
\* does not call sendReviewEmail for an entry of the queue for which a review
\* mail has already been sent.
C27_NotifiedOnce ==
    [][\A t \in Ticks :
          (variant = "per" /\ tick[t].pc = "lookup" /\ tick'[t].pc = "send")
          => LET item == state.reviewQueue[tick'[t].i]
             IN  \A a \in Assignees :
                    reviewMail(a, item.subject, item.summary, TRUE) \notin mailLog]_vars

\* C28: Targeted removal.  A request to POST /review/post takes at most one
\* entry out of the review queue, the one that was published; other entries,
\* also those with the same subject, stay.
C28_TargetedRemoval ==
    [][\A d \in Drains :
          (/\ variant = "per" /\ restarts' = restarts
           /\ drain[d].pc = "post" /\ drain'[d].pc \in {"done", "noreply"})
          => Len(state.reviewQueue) - Len(state'.reviewQueue) <= 1]_vars

\* C29: Loaded state is well-formed.  Whatever parsable text state.json held
\* at startup, state.processedEmails and state.reviewQueue are lists.
C29_LoadedWellFormed == variant = "per" => hasLists(state)

\* The messages a fulfilled publish call has been made for.
published == {c.src : c \in {x \in pubLog : x.ok}}

\* C30: Recorded implies published.  In the processTickets revision every
\* message either has had a fulfilled publish call, or is not recorded in
\* `state` and still carries the UNREAD label that the list query asks for;
\* and a cycle whose list call is fulfilled passes over recorded ids only, so
\* it attempts the first listed id that is not recorded and ends without an
\* attempt only when every listed id is.
C30_RecordedImpliesPublished ==
    /\ [](variant = "tix" =>
            \A id \in 1..mailbox :
                id \in published \/ (id \notin DOMAIN state /\ id \in unread))
    /\ [][variant = "tix" => \A p \in Polls :
            (poll[p].pc = "list" /\ poll'[p].pc \in {"get", "done"}) =>
                LET listed == unreadList
                    to == IF poll'[p].pc = "get" THEN poll'[p].i - 1 ELSE Len(listed)
                IN  /\ \A k \in 1..to : listed[k] \in DOMAIN state
                    /\ poll'[p].pc = "get" => listed[poll'[p].i] \notin DOMAIN state]_vars

\* A publish call for a message was rejected and a later cycle is attempting
\* the same message again, which is still unrecorded.
C30_Witness ==
    /\ variant = "tix"
    /\ \E p \in Polls :
          /\ poll[p].pc \in {"get", "summ", "post"}
          /\ poll[p].msgs[poll[p].i] \notin DOMAIN state
          /\ \E c \in pubLog : c.src = poll[p].msgs[poll[p].i] /\ ~c.ok
          /\ \A q \in Polls \ {p} : poll[q].pc \in {"idle", "done"}
    /\ published # {}

\* The dedup store of the running revision, as the ids it holds in order
\* (the Set of the in-memory revision holds them as a set).
isPrefix(a, b) == Len(a) <= Len(b) /\ SubSeq(b, 1, Len(a)) = a

\* C31: Dedup set only grows and drain does not touch it.  Within one process
\* lifetime no step removes an id from the dedup store, and every step of a
\* POST /review/post handler, whether its publish calls are fulfilled or
\* rejected, leaves the store as it was.
C31_DedupOnlyGrows ==
    [][restarts' = restarts =>
          /\ variant = "mem" =>
                /\ processedEmails \subseteq processedEmails'
                /\ drain' # drain => processedEmails' = processedEmails
          /\ variant = "per" =>
                /\ isPrefix(state.processedEmails, state'.processedEmails)
                /\ drain' # drain => state'.processedEmails = state.processedEmails]_vars

\* The persisted revision has recorded two ids and a POST /review/post
\* request, whose publish call was rejected, has been answered in the same
\* process lifetime: both ids are still recorded.
C31_Witness ==
    /\ variant = "per" /\ restarts = 0
    /\ Len(state.processedEmails) = 2
    /\ \E d \in Drains : drain[d].pc = "done" /\ ~drain[d].ok

====
